---- MODULE Spec2Model ----
(***************************************************************************)
(* Optimal Delaunay Triangulation smoothing (optimesh/odt.py).             *)
(*                                                                         *)
(* The mesh of a run is the state: node coordinates, the cell list and the *)
(* mesh's cache of cell circumcenters.  Coordinates are exact rationals,   *)
(* so every geometric quantity the code computes (cell volumes,            *)
(* circumcenters, barycenters, the energy, the Delaunay criterion of an    *)
(* edge) is computed here by the same formula, exactly.                    *)
(* Floating-point rounding is outside the model.                           *)
(***************************************************************************)
EXTENDS Integers, Sequences, FiniteSets, TLC

(***************************************************************************)
(* Exact rational arithmetic: <<n, d>> in lowest terms, d > 0.             *)
(***************************************************************************)
Abs(n) == IF n < 0 THEN -n ELSE n

RECURSIVE Gcd(_, _)
Gcd(a, b) == IF b = 0 THEN a ELSE Gcd(b, a % b)

Lcm(a, b) == (a \div Gcd(a, b)) * b

Rat(n, d) ==
    LET g == Gcd(Abs(n), Abs(d))
        s == IF d < 0 THEN -1 ELSE 1
    IN  <<(s * n) \div g, (s * d) \div g>>

RInt(n) == <<n, 1>>
RNeg(a) == <<-a[1], a[2]>>
RAdd(a, b) ==
    LET g == Gcd(a[2], b[2])
    IN  Rat(a[1] * (b[2] \div g) + b[1] * (a[2] \div g), (a[2] \div g) * b[2])
RSub(a, b) == RAdd(a, RNeg(b))
RMul(a, b) ==
    LET g == Gcd(Abs(a[1]), b[2])
        h == Gcd(Abs(b[1]), a[2])
    IN  IF a[1] = 0 \/ b[1] = 0 THEN <<0, 1>>
        ELSE <<(a[1] \div g) * (b[1] \div h), (a[2] \div h) * (b[2] \div g)>>
RInv(a) == IF a[1] < 0 THEN <<-a[2], -a[1]>> ELSE <<a[2], a[1]>>
RDiv(a, b) == RMul(a, RInv(b))
RLt(a, b) == a[1] * b[2] < b[1] * a[2]
RLe(a, b) == a[1] * b[2] <= b[1] * a[2]
RZero == RInt(0)

\* A point of the plane: a pair of rationals.
Pt(px, py) == <<RInt(px), RInt(py)>>
PAdd(p, q) == <<RAdd(p[1], q[1]), RAdd(p[2], q[2])>>
PSub(p, q) == <<RSub(p[1], q[1]), RSub(p[2], q[2])>>
PScale(r, p) == <<RMul(r, p[1]), RMul(r, p[2])>>
PZero == Pt(0, 0)

(***************************************************************************)
(* The node coordinates over their common denominator.  Scale(nc) is the   *)
(* least L with every coordinate an integer multiple of 1 / L, and         *)
(* Lattice(nc) the integer pairs L * nc[n].  The geometry below is         *)
(* computed on these integers; where a quantity has a unit the power of L  *)
(* is divided out again.                                                   *)
(***************************************************************************)
RECURSIVE ScaleTo(_, _)
ScaleTo(nc, n) ==
    IF n = 0 THEN 1 ELSE Lcm(Lcm(ScaleTo(nc, n - 1), nc[n][1][2]), nc[n][2][2])

Scale(nc) == ScaleTo(nc, Len(nc))

Lattice(nc) ==
    LET L == Scale(nc)
    IN  [n \in DOMAIN nc |-> <<nc[n][1][1] * (L \div nc[n][1][2]),
                               nc[n][2][1] * (L \div nc[n][2][2])>>]

ISub(p, q) == <<p[1] - q[1], p[2] - q[2]>>
IDot(p, q) == p[1] * q[1] + p[2] * q[2]
ICross(p, q) == p[1] * q[2] - p[2] * q[1]

\* Sum of the integers a[1], ..., a[n].
RECURSIVE ISum(_, _)
ISum(a, n) == IF n = 0 THEN 0 ELSE ISum(a, n - 1) + a[n]

(***************************************************************************)
(* The mesh quantities odt.py reads from MeshTri.  nc is node_coords (a    *)
(* sequence of points, one per node), cs is cells["nodes"] (a sequence of  *)
(* node triples, one per cell), lat is Lattice(nc).                        *)
(***************************************************************************)
\* Twice the signed area of a cell, in lattice units.
IDet(lat, cell) ==
    ICross(ISub(lat[cell[2]], lat[cell[1]]), ISub(lat[cell[3]], lat[cell[1]]))

\* mesh.cell_volumes: the (unsigned) area of every cell.
cell_volumes(nc, cs) ==
    LET L == Scale(nc)
        lat == Lattice(nc)
    IN  [c \in DOMAIN cs |-> Rat(Abs(IDet(lat, cs[c])), 2 * L * L)]

\* mesh.cell_barycenters: the mean of every cell's three nodes.
cell_barycenters(nc, cs) ==
    LET L == Scale(nc)
        lat == Lattice(nc)
    IN  [c \in DOMAIN cs |->
            <<Rat(lat[cs[c][1]][1] + lat[cs[c][2]][1] + lat[cs[c][3]][1], 3 * L),
              Rat(lat[cs[c][1]][2] + lat[cs[c][2]][2] + lat[cs[c][3]][2], 3 * L)>>]

\* The circumcenter of the triangle a, b, c of lattice points (not
\* degenerate), as a point of the plane.
Circumcenter(a, b, c, L) ==
    LET a2 == IDot(a, a)
        b2 == IDot(b, b)
        c2 == IDot(c, c)
        d  == 2 * ICross(ISub(b, a), ISub(c, a))
        ux == a2 * (b[2] - c[2]) + b2 * (c[2] - a[2]) + c2 * (a[2] - b[2])
        uy == a2 * (c[1] - b[1]) + b2 * (a[1] - c[1]) + c2 * (b[1] - a[1])
    IN  <<Rat(ux, d * L), Rat(uy, d * L)>>

\* What mesh.cell_circumcenters computes when nothing is stored.
ComputeCircumcenters(nc, cs) ==
    LET L == Scale(nc)
        lat == Lattice(nc)
    IN  [c \in DOMAIN cs |->
            Circumcenter(lat[cs[c][1]], lat[cs[c][2]], lat[cs[c][3]], L)]

\* The three edges of a cell, each a set of two nodes.
CellEdges(cell) == {{cell[1], cell[2]}, {cell[2], cell[3]}, {cell[1], cell[3]}}

Edges(cs) == UNION {CellEdges(cs[c]) : c \in DOMAIN cs}

\* The cells incident to edge e.
EdgeCells(cs, e) == {c \in DOMAIN cs : e \in CellEdges(cs[c])}

BoundaryEdges(cs) == {e \in Edges(cs) : Cardinality(EdgeCells(cs, e)) = 1}

InteriorEdges(cs) == {e \in Edges(cs) : Cardinality(EdgeCells(cs, e)) = 2}

\* The cells that touch the boundary in a node, with or without an edge on it.
boundary_cell_ids_by_node(cs) ==
    LET bn == UNION BoundaryEdges(cs)
    IN  {c \in DOMAIN cs : {cs[c][1], cs[c][2], cs[c][3]} \cap bn # {}}

\* mesh.edges_cells[1][:, 0]: for every boundary edge, its one cell.
boundary_cell_ids(cs) ==
    LET be == BoundaryEdges(cs)
    IN  {c \in DOMAIN cs : CellEdges(cs[c]) \cap be # {}}

\* mesh.is_interior_node: the nodes on no boundary edge.
is_interior_node(nc, cs) ==
    LET bn == UNION BoundaryEdges(cs)
    IN  [n \in DOMAIN nc |-> n \notin bn]

\* A cell of zero area: a precondition violation the code does not handle.
Degenerate(nc, cs) ==
    LET lat == Lattice(nc)
    IN  \E c \in DOMAIN cs : IDet(lat, cs[c]) = 0

(***************************************************************************)
(* energy(mesh, uniform_density).  With rho = 1 both terms are multiples   *)
(* of 1 / (216 L^4), with rho = 1 / cell_volume of 1 / (108 L^2); the      *)
(* numerators are computed as the code computes the terms.                 *)
(***************************************************************************)
\* dim = mesh.cells["nodes"].shape[1] - 1
dim == 2

EnergyDen(nc, uniform_density) ==
    LET L == Scale(nc)
    IN  IF uniform_density THEN 216 * L * L * L * L ELSE 108 * L * L

\* star_volume with the third scatter-add left out.
star_volume_two_slots(lat, cs, uniform_density) ==
    LET w == [c \in DOMAIN cs |-> IF uniform_density THEN Abs(IDet(lat, cs[c])) ELSE 1]
        slot(n, i) == ISum([c \in DOMAIN cs |-> IF cs[c][i] = n THEN w[c] ELSE 0],
                           Len(cs))
    IN  [n \in DOMAIN lat |-> slot(n, 1) + slot(n, 2)]

\* star_volume after the three scatter-adds: per node, over the three node
\* slots of every cell, the cell's volume (uniform density; here twice the
\* volume in lattice units) or 1.
star_volume(lat, cs, uniform_density) ==
    LET w == [c \in DOMAIN cs |-> IF uniform_density THEN Abs(IDet(lat, cs[c])) ELSE 1]
        slot(n, i) == ISum([c \in DOMAIN cs |-> IF cs[c][i] = n THEN w[c] ELSE 0],
                           Len(cs))
    IN  [n \in DOMAIN lat |-> slot(n, 1) + slot(n, 2) + slot(n, 3)]

\* out = 1 / (dim + 1) * dot(star_volume, x2), as a numerator over
\* EnergyDen: 1 / (dim + 1) / 2 = 36 / 216 and 1 / (dim + 1) = 36 / 108.
EnergyOut(lat, cs, uniform_density) ==
    LET sv == star_volume(lat, cs, uniform_density)
        x2 == [n \in DOMAIN lat |-> IDot(lat[n], lat[n])]
    IN  (108 \div (dim + 1)) * ISum([n \in DOMAIN lat |-> sv[n] * x2[n]], Len(lat))

\* quadpy.triangle.Dunavant(2) applied to x[0]**2 + x[1]**2 on a cell: the
\* cell's area times the mean of the integrand at the three points with
\* barycentric coordinates (2/3, 1/6, 1/6); here the sum of the integrand
\* at six times these points, i.e. 108 times that mean.
Dunavant2(lat, cell) ==
    LET p(i, j, k) == <<4 * lat[cell[i]][1] + lat[cell[j]][1] + lat[cell[k]][1],
                        4 * lat[cell[i]][2] + lat[cell[j]][2] + lat[cell[k]][2]>>
        fx(q) == IDot(q, q)
    IN  fx(p(1, 2, 3)) + fx(p(2, 3, 1)) + fx(p(3, 1, 2))

\* val: the sum of the cells' integrals, each weighted by rho = 1 for the
\* uniform density and by rho = 1 / cell_volume otherwise (the area then
\* cancels), as a numerator over EnergyDen.
EnergyVal(lat, cs, uniform_density) ==
    ISum([c \in DOMAIN cs |->
            IF uniform_density
            THEN Abs(IDet(lat, cs[c])) * Dunavant2(lat, cs[c])
            ELSE Dunavant2(lat, cs[c])], Len(cs))

\* assert out >= val
EnergyAssertion(nc, cs, uniform_density) ==
    LET lat == Lattice(nc)
    IN  EnergyOut(lat, cs, uniform_density) >= EnergyVal(lat, cs, uniform_density)

\* The value energy() returns, or the assertion's failure.
energy(nc, cs, uniform_density) ==
    LET lat == Lattice(nc)
    IN  IF EnergyAssertion(nc, cs, uniform_density)
        THEN Rat(EnergyOut(lat, cs, uniform_density) - EnergyVal(lat, cs, uniform_density),
                 EnergyDen(nc, uniform_density))
        ELSE "AssertionError"

(***************************************************************************)
(* mesh.flip_until_delaunay()                                              *)
(***************************************************************************)
OppNode(cell, e) == CHOOSE n \in {cell[1], cell[2], cell[3]} : n \notin e

\* The two cells of an interior edge and the node of each opposite it.
EdgeQuad(cs, e) ==
    LET ec == EdgeCells(cs, e)
        c1 == CHOOSE c \in ec : \A d \in ec : c <= d
        c2 == CHOOSE c \in ec : c # c1
        u  == CHOOSE n \in e : \A m \in e : n <= m
        v  == CHOOSE n \in e : n # u
    IN  [c1 |-> c1, c2 |-> c2, u |-> u, v |-> v,
         w1 |-> OppNode(cs[c1], e), w2 |-> OppNode(cs[c2], e)]

\* The covolume-edge ratio of interior edge e: over its two cells, half the
\* cotangent of the angle opposite e, i.e. the dot product of the cell's
\* two other edges over four times the cell's volume.
ce_ratio(lat, cs, e) ==
    LET q == EdgeQuad(cs, e)
        dot(w) == IDot(ISub(lat[q.u], lat[w]), ISub(lat[q.v], lat[w]))
        v1 == Abs(IDet(lat, cs[q.c1]))
        v2 == Abs(IDet(lat, cs[q.c2]))
    IN  Rat(dot(q.w1) * v2 + dot(q.w2) * v1, 2 * v1 * v2)

\* The interior edges that violate the Delaunay criterion.
Flippable(lat, cs) == {e \in InteriorEdges(cs) : RLt(ce_ratio(lat, cs, e), RZero)}

\* The cell list after flipping interior edge e: its two cells are re-paired
\* around the other diagonal; every other cell, and the cell count, stay.
FlipEdge(cs, e) ==
    LET q == EdgeQuad(cs, e)
    IN  [cs EXCEPT ![q.c1] = <<q.w1, q.w2, q.u>>, ![q.c2] = <<q.w1, q.w2, q.v>>]

\* Every cell list that some sequence of flips of violating edges leads to.
RECURSIVE FlipClosure(_, _)
FlipClosure(lat, S) ==
    LET T == S \cup UNION {{FlipEdge(t, e) : e \in Flippable(lat, t)} : t \in S}
    IN  IF T = S THEN S ELSE FlipClosure(lat, T)

\* The cell lists flip_until_delaunay can return with: it loops while any
\* interior edge violates the criterion, so it returns only with none left.
\* The order in which it flips is left open.
FlipResults(nc, cs) ==
    LET lat == Lattice(nc)
    IN  {t \in FlipClosure(lat, {cs}) : Flippable(lat, t) = {}}

(***************************************************************************)
(* Reading and writing coordinates through the boolean mask.               *)
(***************************************************************************)
\* The position of node n among the nodes the mask selects.
MaskIndex(mask, n) == Cardinality({m \in 1..n : mask[m]})

MaskCount(mask) == Cardinality({m \in DOMAIN mask : mask[m]})

\* a[mask]: the selected rows, in node order.
ReadMasked(a, mask) ==
    [i \in 1..MaskCount(mask) |->
        a[CHOOSE n \in DOMAIN mask : mask[n] /\ MaskIndex(mask, n) = i]]

\* a[mask] = rows: row i goes to the i-th selected node, the others stay.
WriteMasked(a, mask, rows) ==
    [n \in DOMAIN a |-> IF mask[n] THEN rows[MaskIndex(mask, n)] ELSE a[n]]

\* mesh.node_coords[:] = x.reshape(-1, X.shape[1]): the write without the
\* mask, the rows of x repeated over all nodes.
WriteInterior_unmasked(nc, cs, xs) ==
    [n \in DOMAIN nc |-> xs[((n - 1) % Len(xs)) + 1]]

\* mesh.node_coords[mesh.is_interior_node] = x.reshape(-1, X.shape[1])
WriteInterior(nc, cs, xs) == WriteMasked(nc, is_interior_node(nc, cs), xs)

(***************************************************************************)
(* Inputs.  A kite of four boundary nodes, 1 = (3,0), 2 = (5,2),           *)
(* 3 = (3,6), 4 = (1,2), and one node 5 inside it.  KiteFan joins node 5   *)
(* to the four corners; KiteDiag has the edge {2, 4} and node 5 above it,  *)
(* so that its cell 4 has no boundary edge.  Which of the two is Delaunay  *)
(* depends on where node 5 is.                                             *)
(***************************************************************************)
MaxSteps == 2       \* the largest max_num_steps tried with the minimizer
MaxMoves == 1       \* the largest max_num_steps tried with the relocators
MaxEvals == 1       \* the most f/jac evaluations of one line search
MaxDamp == 1        \* the most halvings of one relocation step

Grid == {Pt(3, 1), Pt(2, 3), Pt(3, 5)}

KiteNodes(p) == <<Pt(3, 0), Pt(5, 2), Pt(3, 6), Pt(1, 2), p>>
KiteFan == << <<1, 2, 5>>, <<2, 3, 5>>, <<3, 4, 5>>, <<4, 1, 5>> >>
KiteDiag == << <<1, 2, 4>>, <<2, 3, 5>>, <<3, 4, 5>>, <<4, 2, 5>> >>

\* A valid input: every cell has three distinct nodes and positive area
\* (here: is counterclockwise, so that the cells do not overlap).
ValidMesh(nc, cs) ==
    \A c \in DOMAIN cs : /\ Cardinality({cs[c][1], cs[c][2], cs[c][3]}) = 3
                         /\ IDet(Lattice(nc), cs[c]) > 0

InputMeshes ==
    {m \in {<<KiteNodes(p), cs>> : p \in Grid, cs \in {KiteFan, KiteDiag}} :
        ValidMesh(m[1], m[2])}

\* The vectors the minimizer may ask about: one grid point per interior node.
Vectors(n) == [1..n -> Grid]

Entries ==
    {"nonlinear_optimization_uniform", "fixed_point_uniform",
     "fixed_point_density_preserving"}

VARIABLES
    entry,          \* the entry point called
    X,              \* the points given to the entry point
    cells_in,       \* the cells given to the entry point
    max_num_steps,  \* the iteration cap given
    verbose,        \* the verbose flag given
    callback,       \* whether the caller gave a progress callback
    node_coords,    \* mesh.node_coords
    cells,          \* mesh.cells["nodes"]
    circumcenters,  \* the mesh's stored cell circumcenters, <<>> when none are stored
    pc,             \* where the run is
    x,              \* the minimizer's current iterate xk
    nit,            \* the minimizer's iteration count
    evals,          \* f/jac evaluations in the current line search
    step,           \* flip_delaunay.step
    calls,          \* the step indices the progress callback was called with
    exc,            \* the exception raised (by the callback or an assertion), or "None"
    why,            \* how the minimizer stopped
    result,         \* what the entry point returned, or "None"
    target,         \* the per-cell array get_new_points last gave the averaging helper
    new_points,     \* what get_new_points last returned
    uniform_density,\* the density flag of a direct call of energy()
    ret             \* what that call returned

vars == <<entry, X, cells_in, max_num_steps, verbose, callback, node_coords, cells,
          circumcenters, pc, x, nit, evals, step, calls, exc, why, result,
          target, new_points, uniform_density, ret>>

params == <<entry, X, cells_in, max_num_steps, verbose, callback>>

relocator == <<target, new_points>>

direct == <<uniform_density, ret>>

\* An entry point is called: mesh = MeshTri(points, cells).  For
\* nonlinear_optimization_uniform also flip_delaunay.step = 0.
Init ==
    /\ entry \in Entries
    /\ \E m \in InputMeshes : X = m[1] /\ cells_in = m[2]
    /\ IF entry = "nonlinear_optimization_uniform"
       THEN /\ max_num_steps \in 0..MaxSteps
            /\ verbose \in BOOLEAN /\ callback \in BOOLEAN /\ pc = "before"
       ELSE /\ max_num_steps \in 0..MaxMoves
            /\ verbose = FALSE /\ callback = FALSE /\ pc = "runner"
    /\ node_coords = X
    /\ cells = cells_in
    /\ circumcenters = <<>>
    /\ target = "None"
    /\ new_points = "None"
    /\ uniform_density = FALSE
    /\ ret = "None"
    /\ x = <<>>
    /\ nit = 0
    /\ evals = 0
    /\ step = 0
    /\ calls = <<>>
    /\ exc = "None"
    /\ why = "None"
    /\ result = "None"

(***************************************************************************)
(* nonlinear_optimization_uniform                                          *)
(***************************************************************************)
\* The statistics printed before the run: energy(mesh) is evaluated, and its
\* assertion can end the run.
Before ==
    /\ pc = "before"
    /\ IF EnergyAssertion(node_coords, cells, FALSE)
       THEN pc' = "step0" /\ exc' = exc
       ELSE pc' = "raised" /\ exc' = "AssertionError"
    /\ UNCHANGED <<params, direct, relocator, node_coords, cells, circumcenters, x, nit, evals,
                   step, calls, why, result>>

\* x0 = X[mesh.is_interior_node].flatten(); if callback: callback(0, mesh).
\* The callback returns or raises.
Step0 ==
    /\ pc = "step0"
    /\ x' = ReadMasked(X, is_interior_node(node_coords, cells))
    /\ \E raises \in BOOLEAN :
        /\ raises => callback
        /\ calls' = IF callback THEN Append(calls, 0) ELSE calls
        /\ IF raises
           THEN pc' = "raised" /\ exc' = "callback"
           ELSE pc' = "f0" /\ exc' = exc
    /\ UNCHANGED <<params, direct, relocator, node_coords, cells, circumcenters, nit, evals,
                   step, why, result>>

\* f(y) with a flip pass after the update.
f_flipping(y, next) ==
    LET nc == [n \in DOMAIN node_coords |->
                 IF is_interior_node(node_coords, cells)[n]
                 THEN y[MaskIndex(is_interior_node(node_coords, cells), n)]
                 ELSE node_coords[n]]
    IN  /\ node_coords' = nc
        /\ circumcenters' = <<>>
        /\ cells' \in FlipResults(nc, cells)
        /\ IF EnergyAssertion(nc, cells', TRUE)
           THEN pc' = next /\ exc' = exc
           ELSE pc' = "raised" /\ exc' = "AssertionError"

\* f(y): write y to the interior nodes, update_values() (which drops the
\* stored circumcenters), return energy(mesh, uniform_density=True).  The
\* run goes on at `next`, or ends with the energy's assertion.
f(y, next) ==
    LET nc == WriteInterior(node_coords, cells, y)
    IN  /\ node_coords' = nc
        /\ circumcenters' = <<>>
        /\ IF EnergyAssertion(nc, cells, TRUE)
           THEN pc' = next /\ exc' = exc
           ELSE pc' = "raised" /\ exc' = "AssertionError"
        /\ UNCHANGED cells

\* jac(y): the same write and update, then the gradient from the cell
\* circumcenters (which the mesh computes and stores) and volumes.
jac(y, next) ==
    LET nc == WriteInterior(node_coords, cells, y)
        cc == ComputeCircumcenters(nc, cells)
    IN  /\ node_coords' = nc
        /\ circumcenters' = cc
        /\ pc' = next
        /\ UNCHANGED <<cells, exc>>

\* The vectors y for which no cell of the mesh becomes degenerate.
Trial(y) == ~ Degenerate(WriteInterior(node_coords, cells, y), cells)

\* scipy.optimize.minimize starts: f(x0), then jac(x0).
MinimizeF0 ==
    /\ pc = "f0"
    /\ f(x, "jac0")
    /\ UNCHANGED <<params, direct, relocator, x, nit, evals, step, calls, why, result>>

MinimizeJac0 ==
    /\ pc = "jac0"
    /\ jac(x, "loop")
    /\ UNCHANGED <<params, direct, relocator, x, nit, evals, step, calls, why, result>>

\* A line search of the minimizer evaluates f at a trial point.
LineSearchF ==
    /\ pc = "loop"
    /\ nit < max_num_steps
    /\ evals < MaxEvals
    /\ \E y \in Vectors(Len(x)) : Trial(y) /\ f(y, "loop")
    /\ evals' = evals + 1
    /\ UNCHANGED <<params, direct, relocator, x, nit, step, calls, why, result>>

\* A line search of the minimizer evaluates jac at a trial point.
LineSearchJac ==
    /\ pc = "loop"
    /\ nit < max_num_steps
    /\ evals < MaxEvals
    /\ \E y \in Vectors(Len(x)) : Trial(y) /\ jac(y, "loop")
    /\ evals' = evals + 1
    /\ UNCHANGED <<params, direct, relocator, x, nit, step, calls, why, result>>

\* flip_delaunay(y) with the step counted after the caller's callback.
flip_delaunay_late_count(y, raises) ==
    LET nc == WriteMasked(node_coords, is_interior_node(node_coords, cells), y)
    IN  /\ step' = step + 1
        /\ cells' \in FlipResults(nc, cells)
        /\ node_coords' = nc
        /\ circumcenters' = <<>>
        /\ IF verbose /\ ~ EnergyAssertion(node_coords', cells', TRUE)
           THEN /\ pc' = "raised" /\ exc' = "AssertionError"
                /\ UNCHANGED <<calls, nit>>
           ELSE /\ calls' = IF callback THEN Append(calls, step) ELSE calls
                /\ IF raises
                   THEN pc' = "raised" /\ exc' = "callback" /\ nit' = nit
                   ELSE pc' = "loop" /\ exc' = exc /\ nit' = nit + 1

\* flip_delaunay(y) with the caller's callback wrapped in try/except: the
\* exception is seen but the run goes on.
flip_delaunay_swallow(y, raises) ==
    LET nc == WriteMasked(node_coords, is_interior_node(node_coords, cells), y)
    IN  /\ step' = step + 1
        /\ cells' \in FlipResults(nc, cells)
        /\ node_coords' = nc
        /\ circumcenters' = <<>>
        /\ IF verbose /\ ~ EnergyAssertion(node_coords', cells', TRUE)
           THEN /\ pc' = "raised" /\ exc' = "AssertionError"
                /\ UNCHANGED <<calls, nit>>
           ELSE /\ calls' = IF callback THEN Append(calls, step') ELSE calls
                /\ pc' = "loop"
                /\ exc' = IF raises THEN "callback" ELSE exc
                /\ nit' = nit + 1

\* flip_delaunay(y) without the write of y: the mesh keeps the coordinates
\* of the last f or jac evaluation.
flip_delaunay_no_write(y, raises) ==
    /\ step' = step + 1
    /\ cells' \in FlipResults(node_coords, cells)
    /\ node_coords' = node_coords
    /\ circumcenters' = <<>>
    /\ IF verbose /\ ~ EnergyAssertion(node_coords', cells', TRUE)
       THEN /\ pc' = "raised" /\ exc' = "AssertionError"
            /\ UNCHANGED <<calls, nit>>
       ELSE /\ calls' = IF callback THEN Append(calls, step') ELSE calls
            /\ IF raises
               THEN pc' = "raised" /\ exc' = "callback" /\ nit' = nit
               ELSE pc' = "loop" /\ exc' = exc /\ nit' = nit + 1

\* flip_delaunay(y), the minimizer's callback: count the step, write y,
\* update, flip until Delaunay, with verbose evaluate f(y) for the
\* statistics, and call the caller's callback, which returns or raises.
flip_delaunay(y, raises) ==
    LET nc == WriteInterior(node_coords, cells, y)
    IN  /\ step' = step + 1
        /\ cells' \in FlipResults(nc, cells)
        /\ node_coords' = IF verbose THEN WriteInterior(nc, cells', y) ELSE nc
        /\ circumcenters' = <<>>
        /\ IF verbose /\ ~ EnergyAssertion(node_coords', cells', TRUE)
           THEN /\ pc' = "raised" /\ exc' = "AssertionError"
                /\ UNCHANGED <<calls, nit>>
           ELSE /\ calls' = IF callback THEN Append(calls, step') ELSE calls
                /\ IF raises
                   THEN pc' = "raised" /\ exc' = "callback" /\ nit' = nit
                   ELSE pc' = "loop" /\ exc' = exc /\ nit' = nit + 1

\* The minimizer taking a first step before it looks at maxiter.
AcceptStep_before_cap ==
    /\ pc = "loop"
    /\ nit < max_num_steps \/ nit = 0
    /\ \E y \in Vectors(Len(x)), raises \in BOOLEAN :
        /\ Trial(y)
        /\ raises => callback
        /\ x' = y
        /\ step' = step + 1
        /\ node_coords' = WriteMasked(node_coords, is_interior_node(node_coords, cells), y)
        /\ cells' \in FlipResults(node_coords', cells)
        /\ circumcenters' = <<>>
        /\ calls' = IF callback THEN Append(calls, step') ELSE calls
        /\ IF raises
           THEN pc' = "raised" /\ exc' = "callback" /\ nit' = nit
           ELSE pc' = "loop" /\ exc' = exc /\ nit' = nit + 1
    /\ evals' = 0
    /\ UNCHANGED <<params, direct, relocator, why, result>>

\* The minimizer accepts a step: xk = y, callback(xk), k += 1.
AcceptStep ==
    /\ pc = "loop"
    /\ nit < max_num_steps
    /\ evals >= 1
    /\ \E y \in Vectors(Len(x)), raises \in BOOLEAN :
        /\ Trial(y)
        /\ raises => callback
        /\ x' = y
        /\ flip_delaunay(y, raises)
    /\ evals' = 0
    /\ UNCHANGED <<params, direct, relocator, why, result>>

\* The minimizer stops because the gradient norm is within tol (tol is any
\* value, so this can happen at any iterate) or the line search gave up.
Converged ==
    /\ pc = "loop"
    /\ pc' = "final"
    /\ why' = "converged"
    /\ UNCHANGED <<params, direct, relocator, node_coords, cells, circumcenters, x, nit, evals,
                   step, calls, exc, result>>

\* The minimizer stops because it has done maxiter = max_num_steps steps.
MaxStepsReached ==
    /\ pc = "loop"
    /\ nit >= max_num_steps
    /\ pc' = "final"
    /\ why' = "max_steps"
    /\ UNCHANGED <<params, direct, relocator, node_coords, cells, circumcenters, x, nit, evals,
                   step, calls, exc, result>>

\* The return without the last edge flip.
FinalFlip_no_flip ==
    LET nc == WriteMasked(node_coords, is_interior_node(node_coords, cells), x)
    IN  /\ pc = "final"
        /\ node_coords' = nc
        /\ circumcenters' = <<>>
        /\ cells' = cells
        /\ IF EnergyAssertion(nc, cells', FALSE)
           THEN pc' = "done" /\ exc' = exc /\ result' = <<nc, cells'>>
           ELSE pc' = "raised" /\ exc' = "AssertionError" /\ result' = result
        /\ UNCHANGED <<params, direct, relocator, x, nit, evals, step, calls, why>>

\* One last edge flip: write out.x, update, flip until Delaunay; the final
\* statistics evaluate energy(mesh); return node_coords and the cells.
FinalFlip ==
    LET nc == WriteInterior(node_coords, cells, x)
    IN  /\ pc = "final"
        /\ node_coords' = nc
        /\ circumcenters' = <<>>
        /\ cells' \in FlipResults(nc, cells)
        /\ IF EnergyAssertion(nc, cells', FALSE)
           THEN pc' = "done" /\ exc' = exc /\ result' = <<nc, cells'>>
           ELSE pc' = "raised" /\ exc' = "AssertionError" /\ result' = result
        /\ UNCHANGED <<params, direct, relocator, x, nit, evals, step, calls, why>>

(***************************************************************************)
(* fixed_point_uniform and fixed_point_density_preserving                  *)
(***************************************************************************)
\* cc[boundary_cell_ids] = bc[boundary_cell_ids]
SubstituteBoundary(cc, bc, ids) ==
    [c \in DOMAIN cc |-> IF c \in ids THEN bc[c] ELSE cc[c]]

\* mesh.cell_circumcenters: the stored array, computed when nothing is stored.
cell_circumcenters ==
    IF circumcenters = <<>>
    THEN ComputeCircumcenters(node_coords, cells)
    ELSE circumcenters

\* Sum of the points a[1], ..., a[n].
RECURSIVE PSum(_, _)
PSum(a, n) == IF n = 0 THEN PZero ELSE PAdd(PSum(a, n - 1), a[n])

\* Sum of the rationals a[1], ..., a[n].
RECURSIVE RSum(_, _)
RSum(a, n) == IF n = 0 THEN RZero ELSE RAdd(RSum(a, n - 1), a[n])

\* The averaging helpers (helpers.py): for each interior node, in node
\* order, the average of the target points of the cells of its star,
\* weighted by cell volume ...
get_new_points_volume_averaged(nc, cs, t) ==
    LET vol == cell_volumes(nc, cs)
        in_star(n, c) == n \in {cs[c][1], cs[c][2], cs[c][3]}
        avg == [n \in DOMAIN nc |->
                   LET s == PSum([c \in DOMAIN cs |->
                                    IF in_star(n, c) THEN PScale(vol[c], t[c]) ELSE PZero],
                                 Len(cs))
                       w == RSum([c \in DOMAIN cs |->
                                    IF in_star(n, c) THEN vol[c] ELSE RZero], Len(cs))
                   IN  <<RDiv(s[1], w), RDiv(s[2], w)>>]
    IN  ReadMasked(avg, is_interior_node(nc, cs))

\* ... or unweighted.
get_new_points_count_averaged(nc, cs, t) ==
    LET in_star(n, c) == n \in {cs[c][1], cs[c][2], cs[c][3]}
        avg == [n \in DOMAIN nc |->
                   LET s == PSum([c \in DOMAIN cs |->
                                    IF in_star(n, c) THEN t[c] ELSE PZero], Len(cs))
                       w == Cardinality({c \in DOMAIN cs : in_star(n, c)})
                   IN  PScale(Rat(1, w), s)]
    IN  ReadMasked(avg, is_interior_node(nc, cs))

\* get_new_points(mesh): circumcenters everywhere except at the cells with
\* a boundary edge, barycenters there.  cc is the array the mesh stores, and
\* the substitution is made in it.
get_new_points ==
    LET cc == SubstituteBoundary(cell_circumcenters,
                                 cell_barycenters(node_coords, cells),
                                 boundary_cell_ids(cells))
    IN  /\ circumcenters' = cc
        /\ target' = cc
        /\ new_points' =
              IF entry = "fixed_point_uniform"
              THEN get_new_points_volume_averaged(node_coords, cells, cc)
              ELSE get_new_points_count_averaged(node_coords, cells, cc)
        /\ UNCHANGED <<node_coords, cells>>

\* The iteration driver (helpers.py) starts an iteration, or returns when the
\* step count has reached the cap or the last step was within the tolerance;
\* the entry point then returns mesh.node_coords and mesh.cells["nodes"].
Runner ==
    /\ pc = "runner"
    /\ IF nit >= max_num_steps \/ why = "converged"
       THEN pc' = "done" /\ result' = <<node_coords, cells>>
       ELSE pc' = "get_new_points" /\ result' = result
    /\ UNCHANGED <<params, direct, relocator, node_coords, cells, circumcenters, x, nit,
                   evals, step, calls, exc, why>>

\* The driver calls get_new_points(mesh).
GetNewPoints ==
    /\ pc = "get_new_points"
    /\ get_new_points
    /\ pc' = "apply"
    /\ UNCHANGED <<params, direct, x, nit, evals, step, calls, exc, why, result>>

\* The interior nodes moved the fraction 1 / 2^j of the way to np.
Damped(nc, cs, np, j) ==
    LET old == ReadMasked(nc, is_interior_node(nc, cs))
        a == Rat(1, 2 ^ j)
    IN  [i \in DOMAIN np |-> PAdd(PScale(RSub(RInt(1), a), old[i]), PScale(a, np[i]))]

\* Whether cell c is counterclockwise.
Positive(nc, cs, c) ==
    LET u == PSub(nc[cs[c][2]], nc[cs[c][1]])
        v == PSub(nc[cs[c][3]], nc[cs[c][1]])
    IN  RLt(RMul(u[2], v[1]), RMul(u[1], v[2]))

\* No cell changes its orientation between the coordinates nc and mc.
SameOrientation(nc, mc, cs) ==
    \A c \in DOMAIN cs : Positive(nc, cs, c) = Positive(mc, cs, c)

\* The driver applies the new points to the interior nodes, damping the
\* step (halving it, at most MaxDamp times, else dropping it) while it would
\* switch the orientation of a cell; updates the mesh values; counts the
\* step; and finds the step within the tolerance (tol is any value) or not.
RunnerApply ==
    /\ pc = "apply"
    /\ LET moved(j) == WriteInterior(node_coords, cells,
                                     Damped(node_coords, cells, new_points, j))
           ok == {j \in 0..MaxDamp : SameOrientation(node_coords, moved(j), cells)}
       IN  node_coords' = IF ok = {} THEN node_coords
                          ELSE moved(CHOOSE j \in ok : \A i \in ok : j <= i)
    /\ circumcenters' = <<>>
    /\ nit' = nit + 1
    /\ \E within \in BOOLEAN : why' = IF within THEN "converged" ELSE why
    /\ pc' = "runner"
    /\ UNCHANGED <<params, direct, relocator, cells, x, evals, step, calls, exc, result>>

Next ==
    \/ Before
    \/ Step0
    \/ MinimizeF0
    \/ MinimizeJac0
    \/ LineSearchF
    \/ LineSearchJac
    \/ AcceptStep
    \/ Converged
    \/ MaxStepsReached
    \/ FinalFlip
    \/ Runner
    \/ GetNewPoints
    \/ RunnerApply

Spec == Init /\ [][Next]_vars

(***************************************************************************)
(* energy(mesh, uniform_density) called on its own, on the valid meshes of *)
(* the kite with node 5 on the half-integer points.                        *)
(***************************************************************************)
HalfGrid == {<<Rat(i, 2), Rat(j, 2)>> : i \in 3..9, j \in 1..11}

EnergyMeshes ==
    {m \in {<<KiteNodes(p), cs>> : p \in HalfGrid, cs \in {KiteFan, KiteDiag}} :
        ValidMesh(m[1], m[2])}

InitEnergy ==
    /\ entry = "energy"
    /\ \E m \in EnergyMeshes : X = m[1] /\ cells_in = m[2]
    /\ uniform_density \in BOOLEAN
    /\ max_num_steps = 0
    /\ verbose = FALSE
    /\ callback = FALSE
    /\ node_coords = X
    /\ cells = cells_in
    /\ circumcenters = <<>>
    /\ target = "None"
    /\ new_points = "None"
    /\ ret = "None"
    /\ pc = "energy"
    /\ x = <<>>
    /\ nit = 0
    /\ evals = 0
    /\ step = 0
    /\ calls = <<>>
    /\ exc = "None"
    /\ why = "None"
    /\ result = "None"

\* energy(mesh, uniform_density) returns, or its assertion fails.
Energy ==
    /\ pc = "energy"
    /\ IF EnergyAssertion(node_coords, cells, uniform_density)
       THEN /\ ret' = energy(node_coords, cells, uniform_density)
            /\ pc' = "returned"
            /\ exc' = exc
       ELSE /\ ret' = ret
            /\ pc' = "raised"
            /\ exc' = "AssertionError"
    /\ UNCHANGED <<params, relocator, uniform_density, node_coords, cells,
                   circumcenters, x, nit, evals, step, calls, why, result>>

NextEnergy == Energy

SpecEnergy == InitEnergy /\ [][NextEnergy]_vars

(***************************************************************************)
(* Properties.                                                             *)
(***************************************************************************)
nonlinear == entry = "nonlinear_optimization_uniform"

\* Whether d is strictly inside the circle through a, b and c.
InCircle(a, b, c, d) ==
    LET p == ISub(a, d)
        q == ISub(b, d)
        r == ISub(c, d)
        det == IDot(p, p) * ICross(q, r) - IDot(q, q) * ICross(p, r)
                 + IDot(r, r) * ICross(p, q)
        orient == ICross(ISub(b, a), ISub(c, a))
    IN  (det > 0 /\ orient > 0) \/ (det < 0 /\ orient < 0)

\* The empty-circumcircle property: for no interior edge does the node
\* opposite it in one cell lie strictly inside the circumcircle of the other.
Delaunay(nc, cs) ==
    LET lat == Lattice(nc)
    IN  \A e \in InteriorEdges(cs) :
            LET q == EdgeQuad(cs, e)
            IN  ~ InCircle(lat[q.u], lat[q.v], lat[q.w1], lat[q.w2])

\* The interior coordinates of a mesh, by its own mask.
InteriorOf(nc, cs) == ReadMasked(nc, is_interior_node(nc, cs))

\* C1: in every state of every run of the three entry points, every
\* boundary node has the coordinates it was given, and the interior mask of
\* the mesh is the input mesh's, flips or not; so for the returned mesh.
C1_BoundaryNodesFixed ==
    /\ is_interior_node(node_coords, cells) = is_interior_node(X, cells_in)
    /\ \A n \in DOMAIN X :
          ~ is_interior_node(X, cells_in)[n] => node_coords[n] = X[n]
    /\ result # "None" =>
          /\ is_interior_node(result[1], result[2]) = is_interior_node(X, cells_in)
          /\ \A n \in DOMAIN X :
                ~ is_interior_node(X, cells_in)[n] => result[1][n] = X[n]

\* A run of the minimizer returned with the interior node moved and an edge
\* flipped.
C1_Witness ==
    /\ nonlinear
    /\ pc = "done"
    /\ result[1] # X
    /\ result[2] # cells_in

\* C2 as stated: with max_num_steps = 0 the returned points and cells are
\* the input's, Delaunay or not.
C2_Original ==
    (pc = "done" /\ max_num_steps = 0) => result = <<X, cells_in>>

\* C2 amended: with max_num_steps = 0 the returned points are the input's;
\* the returned cells are the input's for the fixed-point entries and for a
\* Delaunay input of the minimizer entry, whose last edge flip otherwise
\* returns a Delaunay re-pairing of the cells.
C2_ZeroStepsKeepPoints ==
    (pc = "done" /\ max_num_steps = 0) =>
        /\ result[1] = X
        /\ (~ nonlinear \/ Delaunay(X, cells_in)) => result[2] = cells_in
        /\ nonlinear => Delaunay(result[1], result[2])

\* The minimizer entry returned from max_num_steps = 0 with the input's
\* points and other cells.
C2_Witness ==
    /\ nonlinear
    /\ pc = "done"
    /\ max_num_steps = 0
    /\ result[1] = X
    /\ result[2] # cells_in

\* C3: a run of the minimizer entry that no callback ends goes on to its
\* return, whether the minimizer converged or hit the cap: no assertion
\* ends it, and every flip pass it is about to make ends.  It returns the
\* mesh with the minimizer's final iterate written and no flippable edge,
\* and the mesh has no flippable edge at the end of every step callback
\* either.
C3_ReturnsDelaunay ==
    nonlinear =>
        /\ pc = "done" =>
              /\ why \in {"converged", "max_steps"}
              /\ result = <<node_coords, cells>>
              /\ InteriorOf(result[1], result[2]) = x
              /\ Delaunay(result[1], result[2])
        /\ ((pc = "loop" /\ nit >= 1 /\ evals = 0) \/ (exc = "callback" /\ step >= 1))
              => Delaunay(node_coords, cells)
        /\ pc = "raised" => exc = "callback"
        /\ pc = "final" => FlipResults(WriteInterior(node_coords, cells, x), cells) # {}
        /\ pc = "loop" =>
              \A y \in Vectors(Len(x)) :
                  Trial(y) => FlipResults(WriteInterior(node_coords, cells, y), cells) # {}

\* A run returned after the cap stopped the minimizer, with steps accepted
\* and edges flipped.
C3_Witness ==
    /\ nonlinear
    /\ pc = "done"
    /\ why = "max_steps"
    /\ nit = max_num_steps
    /\ nit >= 1
    /\ cells # cells_in

\* C4 as stated: a run with a callback in which the minimizer accepted k
\* steps invoked the callback exactly k times.
C4_Original ==
    (pc = "done" /\ callback) => Len(calls) = nit

\* C4 amended: the callback is invoked once with index 0 before the
\* minimizer starts and once per accepted step with that step's index: k + 1
\* times for k accepted steps, with the indices 0, ..., k; never without one.
C4_CallbackPerStepAndStart ==
    nonlinear =>
        /\ ~ callback => calls = <<>>
        /\ (callback /\ pc \in {"f0", "jac0", "loop", "final", "done"})
              => calls = [i \in 1..(nit + 1) |-> i - 1]

\* A run with a callback returned after two accepted steps.
C4_Witness ==
    /\ nonlinear
    /\ callback
    /\ pc = "done"
    /\ nit = 2
    /\ calls = <<0, 1, 2>>

\* C5: no step changes the number of nodes or of cells; the fixed-point
\* entries never change the cells; the minimizer entry changes them only in
\* the flip pass of a step callback or in the last edge flip, never in an
\* f or jac evaluation.
C5_CellsChangeOnlyInFlipPass ==
    [][/\ Len(node_coords') = Len(X)
       /\ Len(cells') = Len(cells_in)
       /\ ~ nonlinear => cells' = cells_in
       /\ cells' # cells =>
             \/ pc = "loop" /\ step' = step + 1
             \/ pc = "final"]_vars

\* The minimizer evaluated f or jac at a trial point on a mesh whose cells an
\* earlier step callback had flipped.
C5_Witness ==
    /\ nonlinear
    /\ pc = "loop"
    /\ evals >= 1
    /\ step >= 1
    /\ cells # cells_in

\* C6: on a valid mesh, with either density, the assertion out >= val of
\* energy() holds and the returned energy is not negative.
C6_EnergyAssertionHolds ==
    /\ exc # "AssertionError"
    /\ pc = "returned" => (ret # "AssertionError" /\ RLe(RZero, ret))

\* energy() returned a positive value for the non-uniform density on a mesh
\* with a cell off the boundary.
C6_Witness ==
    /\ pc = "returned"
    /\ ~ uniform_density
    /\ cells = KiteDiag
    /\ RLt(RZero, ret)

\* C7: once the callback has raised, at step 0 or in a step callback, the
\* run is over: nothing returned, and nothing more happens (no f, jac or
\* step callback, no last edge flip).
C7_CallbackRaiseAborts ==
    exc = "callback" =>
        /\ pc = "raised"
        /\ result = "None"
        /\ ~ ENABLED Next

\* The callback raised in a step callback.
C7_Witness ==
    /\ exc = "callback"
    /\ pc = "raised"
    /\ step >= 1

\* C8 as stated: a call of get_new_points leaves the mesh as it was: the
\* coordinates, the cells and the mesh's cell circumcenters.
C8_GetNewPointsPure ==
    [][pc = "get_new_points" =>
          /\ node_coords' = node_coords
          /\ cells' = cells
          /\ cell_circumcenters' = cell_circumcenters]_vars

\* The true circumcenter of cell c is not its barycenter.
OffCentre(c) ==
    ComputeCircumcenters(node_coords, cells)[c] # cell_barycenters(node_coords, cells)[c]

\* C9: the array get_new_points gives the averaging helper has one entry per
\* cell: the barycenter for a cell with an edge on the boundary, the
\* circumcenter for every other cell.
C9_TargetPerCell ==
    pc = "apply" =>
        /\ Len(target) = Len(cells)
        /\ \A c \in DOMAIN cells :
              target[c] =
                 IF \E e \in CellEdges(cells[c]) : Cardinality(EdgeCells(cells, e)) = 1
                 THEN cell_barycenters(node_coords, cells)[c]
                 ELSE ComputeCircumcenters(node_coords, cells)[c]

\* get_new_points ran on a mesh with a cell on the boundary and a cell off
\* it (one that still touches the boundary in two nodes), neither with its
\* circumcenter at its barycenter.
C9_Witness ==
    /\ pc = "apply"
    /\ \E c \in DOMAIN cells :
          /\ \A e \in CellEdges(cells[c]) : Cardinality(EdgeCells(cells, e)) = 2
          /\ OffCentre(c)
    /\ \E c \in DOMAIN cells :
          /\ \E e \in CellEdges(cells[c]) : Cardinality(EdgeCells(cells, e)) = 1
          /\ OffCentre(c)

\* C10: when a step callback ends (and the progress callback is invoked
\* with an index k >= 1) the interior coordinates of the mesh are the
\* minimizer's accepted iterate, whatever trial point was evaluated last;
\* on return they are the minimizer's final iterate; the step index goes up
\* by one per step callback, and the callback's indices are 0, 1, 2, ...
C10_MeshHoldsIterate ==
    [][nonlinear =>
          /\ step' # step =>
                /\ step' = step + 1
                /\ InteriorOf(node_coords', cells') = x'
                /\ callback => calls' = Append(calls, step')
          /\ calls' # calls => calls' = Append(calls, Len(calls))
          /\ (pc' = "done" /\ pc # "done") =>
                /\ x' = x
                /\ InteriorOf(result'[1], result'[2]) = x]_vars

\* The minimizer stopped after accepted steps with the mesh still at a trial
\* point that is not its final iterate.
C10_Witness ==
    /\ nonlinear
    /\ callback
    /\ pc = "final"
    /\ nit >= 1
    /\ Len(calls) = nit + 1
    /\ InteriorOf(node_coords, cells) # x

====
